---- MODULE Spec2Model ----
(***************************************************************************)
(* Deep Research Assistant: the research pipeline (ResearchEngine), its    *)
(* citation bookkeeping (CitationManager) and the SSE progress stream of   *)
(* the Flask server (research_stream.generate / run_research).             *)
(*                                                                         *)
(* Scalars: scores are kept in thousandths (0.5 -> 500), text is a tuple   *)
(* of one-character strings, a dict with insertion order is a tuple of     *)
(* its items.                                                              *)
(***************************************************************************)
EXTENDS Integers, Sequences, FiniteSets, TLC

\* ------------------------------------------------------------------ bounds

\* Requests the server receives in one behaviour.
MaxRuns == 2
\* Backlog of the (unbounded) progress queue that the model keeps; a put
\* waits for the consumer when the backlog is full.
MaxQueue == 1
\* Length of the citation list in the CitationManager-only specification.
MaxCitations == 3
MaxSources == 22
MaxText == 6

\* --------------------------------------------------------------- constants

\* Config.MAX_QUERIES (default of the environment variable)
MAX_QUERIES == 5
\* ResearchEngine.quick_research / deep_research overrides
QUICK_QUERIES == 3
DEEP_QUERIES == 8
\* conduct_research: scored_sources[:20]
TOP_K == 20
\* _analyze_sources: len(content) < 100 is skipped
MIN_CONTENT == 100
\* insert_citations: len(title) > 10, title[:50]
\* VectorStore.add_documents: documents under 50 characters are left out
MIN_DOCUMENT == 50
MIN_TITLE == 10
TITLE_PREFIX == 50
CHUNK_SIZE == 1000
CHUNK_OVERLAP == 200

\* ------------------------------------------------------------------ helpers

Min(a, b) == IF a < b THEN a ELSE b

Range(s) == {s[i] : i \in 1..Len(s)}

\* s[:n] of Python
Take(s, n) == SubSeq(s, 1, Min(n, Len(s)))

RECURSIVE Concat(_)
\* the concatenation of a tuple of tuples
Concat(ss) == IF ss = <<>> THEN <<>> ELSE Head(ss) \o Concat(Tail(ss))

RECURSIVE SelectSeqBy(_, _)
\* [x for x in s if keep[x]]; keep is a function over Range(s)
SelectSeqBy(s, keep) ==
    IF s = <<>> THEN <<>>
    ELSE (IF keep[Head(s)] THEN <<Head(s)>> ELSE <<>>) \o SelectSeqBy(Tail(s), keep)

\* str(n) for the small naturals the model reaches, as a tuple of characters
DecimalDigits == <<"0", "1", "2", "3", "4", "5", "6", "7", "8", "9">>

RECURSIVE str(_)
str(n) == IF n < 10 THEN <<DecimalDigits[n + 1]>>
          ELSE str(n \div 10) \o <<DecimalDigits[(n % 10) + 1]>>

\* ------------------------------------------------------------ sample data

\* Titles: one longer than 10 characters, one not, one longer than 50.
TitleLong == <<"G", "r", "a", "p", "h", "e", "n", "e", " ", "c", "e", "l", "l">>
TitleOver50 == TitleLong \o TitleLong \o TitleLong \o TitleLong
TitleShort == <<"W", "i", "k", "i">>

\* A source record as the pipeline passes it around (a Python dict): url,
\* title, score (raw relevance, thousandths), clen = len(content), date
\* (published_date as a day number, 0 for the empty string), is_summary and
\* channel ("" until _combine_sources tags it).
Src(u, t, s, c, d) ==
    [url |-> u, title |-> t, score |-> s, clen |-> c, date |-> d,
     is_summary |-> FALSE, channel |-> ""]

\* datetime.now() as a day number
Now == 1000

\* The record WebSearcher.search puts first when Tavily returns an answer.
AISummary ==
    [url |-> "", title |-> <<"A", "I">>, score |-> 1000, clen |-> 120, date |-> Now,
     is_summary |-> TRUE, channel |-> ""]

UrlEdu == "https://mit.edu/a"
UrlReddit == "https://reddit.com/r"
UrlPlain == "https://example.com/p"

URLs == {UrlEdu, UrlReddit, UrlPlain}

\* ------------------------------------------------------- CitationManager
\* A manager is the record [citations, citation_map]: the list of cited
\* sources and the URL -> number dict.  A list entry keeps the keys the
\* manager reads, url and title.

citation_info(source) == [url |-> source.url, title |-> source.title]

\* CitationManager.__init__ / clear
EmptyManager == [citations |-> <<>>, citation_map |-> <<>>]

add_citation_nodedup(cm, source) ==
    LET n == Len(cm.citations) + 1
    IN  [cm  |-> [citations    |-> Append(cm.citations, citation_info(source)),
                  citation_map |-> IF source.url # ""
                                   THEN (source.url :> n) @@ cm.citation_map
                                   ELSE cm.citation_map],
         num |-> n]

add_citation_zero_based(cm, source) ==
    LET url == source.url
    IN  IF url # "" /\ url \in DOMAIN cm.citation_map
        THEN [cm |-> cm, num |-> cm.citation_map[url]]
        ELSE LET citation_num == Len(cm.citations)
             IN  [cm  |-> [citations    |-> Append(cm.citations, citation_info(source)),
                           citation_map |-> IF url # ""
                                            THEN (url :> citation_num) @@ cm.citation_map
                                            ELSE cm.citation_map],
                  num |-> citation_num]

add_citation_map_empty_url(cm, source) ==
    LET url == source.url
    IN  IF url \in DOMAIN cm.citation_map
        THEN [cm |-> cm, num |-> cm.citation_map[url]]
        ELSE LET citation_num == Len(cm.citations) + 1
             IN  [cm  |-> [citations    |-> Append(cm.citations, citation_info(source)),
                           citation_map |-> (url :> citation_num) @@ cm.citation_map],
                  num |-> citation_num]

\* add_citation(source) -> [cm: the manager afterwards, num: the number returned]
add_citation(cm, source) ==
    LET url == source.url
    IN  IF url # "" /\ url \in DOMAIN cm.citation_map
        THEN [cm |-> cm, num |-> cm.citation_map[url]]
        ELSE LET citation_num == Len(cm.citations) + 1
             IN  [cm  |-> [citations    |-> Append(cm.citations, citation_info(source)),
                           citation_map |-> IF url # ""
                                            THEN (url :> citation_num) @@ cm.citation_map
                                            ELSE cm.citation_map],
                  num |-> citation_num]

\* get_inline_citation(url): f"[{n}]" or ""
get_inline_citation(cm, url) ==
    IF url \in DOMAIN cm.citation_map
    THEN <<"[">> \o str(cm.citation_map[url]) \o <<"]">>
    ELSE <<>>

\* re.sub(f"({pattern}[^\\[]*)", f"\\1 [{n}]", text, count=1): the leftmost
\* occurrence of the literal pattern, extended over every following
\* character that is not "[", gets " [n]" appended.
MatchAt(text, pat, i) ==
    /\ i + Len(pat) - 1 <= Len(text)
    /\ SubSeq(text, i, i + Len(pat) - 1) = pat

FirstMatch(text, pat) ==
    LET hits == {i \in 1..Len(text) : MatchAt(text, pat, i)}
    IN  IF hits = {} THEN 0 ELSE CHOOSE i \in hits : \A j \in hits : i <= j

SpanEnd(text, from) ==
    LET stops == {k \in (from + 1)..Len(text) : text[k] = "["}
    IN  IF stops = {} THEN Len(text)
        ELSE (CHOOSE k \in stops : \A j \in stops : k <= j) - 1

sub_once_after_title(text, pat, n) ==
    LET i == FirstMatch(text, pat)
    IN  IF i = 0 THEN text
        ELSE LET e == i + Len(pat) - 1
             IN  SubSeq(text, 1, e) \o <<" ", "[">> \o str(n) \o <<"]">>
                 \o SubSeq(text, e + 1, Len(text))

sub_once(text, pat, n) ==
    LET i == FirstMatch(text, pat)
    IN  IF i = 0 THEN text
        ELSE LET e == SpanEnd(text, i + Len(pat) - 1)
             IN  SubSeq(text, 1, e) \o <<" ", "[">> \o str(n) \o <<"]">>
                 \o SubSeq(text, e + 1, Len(text))

RECURSIVE insert_citations_matched_only(_, _, _)
insert_citations_matched_only(cm, text, sources) ==
    IF sources = <<>> THEN [cm |-> cm, text |-> text]
    ELSE LET source  == Head(sources)
             pat     == Take(source.title, TITLE_PREFIX)
             matched == Len(source.title) > MIN_TITLE /\ FirstMatch(text, pat) # 0
             r       == IF matched THEN add_citation(cm, source)
                        ELSE [cm |-> cm, num |-> 0]
         IN  insert_citations_matched_only(
                 r.cm, IF matched THEN sub_once(text, pat, r.num) ELSE text,
                 Tail(sources))

RECURSIVE insert_citations(_, _, _)
\* insert_citations(text, sources) -> [cm, text]
insert_citations(cm, text, sources) ==
    IF sources = <<>> THEN [cm |-> cm, text |-> text]
    ELSE LET source == Head(sources)
             r      == add_citation(cm, source)
             title  == source.title
             modified_text ==
                 IF Len(title) > MIN_TITLE
                 THEN sub_once(text, Take(title, TITLE_PREFIX), r.num)
                 ELSE text
         IN  insert_citations(r.cm, modified_text, Tail(sources))

RECURSIVE add_all(_, _)
\* for citation in citations: self.add_citation(citation)
add_all(cm, sources) ==
    IF sources = <<>> THEN cm
    ELSE add_all(add_citation(cm, Head(sources)).cm, Tail(sources))

\* import_citations(citations): clear(), then add each
import_citations(cm, sources) == add_all(EmptyManager, sources)

\* generate_bibliography(): "" when nothing is cited, else the header line
\* and one line per citation, numbered by enumerate(self.citations, 1).
\* A line is kept as its parts: [num, url, title]; the header has num 0.
HeaderLine == [num |-> 0, url |-> "", title |-> <<"REFERENCES">>]

generate_bibliography_from_zero(cm) ==
    IF cm.citations = <<>> THEN <<>>
    ELSE <<HeaderLine>> \o
         [i \in 1..Len(cm.citations) |->
            [num |-> i - 1, url |-> cm.citations[i].url,
             title |-> cm.citations[i].title]]

generate_bibliography(cm) ==
    IF cm.citations = <<>> THEN <<>>
    ELSE <<HeaderLine>> \o
         [i \in 1..Len(cm.citations) |->
            [num |-> i, url |-> cm.citations[i].url, title |-> cm.citations[i].title]]

\* export_citations(): self.citations.copy()
export_citations(cm) == cm.citations

\* ResearchEngine._add_citations(text, sources): add_citation for every
\* source, then insert_citations over the same sources.
engine_add_citations(cm, text, sources) ==
    insert_citations(add_all(cm, sources), text, sources)

\* ------------------------------------------------------------ VectorStore

vector_add_unguarded(documents, outcome) ==
    LET ids == SelectSeq(documents, LAMBDA doc : doc.clen >= MIN_DOCUMENT)
    IN  IF ids = <<>> THEN [raised |-> FALSE, added |-> 0]
        ELSE IF outcome.kind = "ok" THEN [raised |-> FALSE, added |-> Len(ids)]
        ELSE [raised |-> TRUE, added |-> 0]

\* VectorStore.add_documents(documents) -> number added; outcome is what
\* collection.add does: it returns ("ok") or raises.  One chunk per
\* document.
vector_add_documents(documents, outcome) ==
    LET ids == SelectSeq(documents, LAMBDA doc : doc.clen >= MIN_DOCUMENT)
    IN  IF ids = <<>> THEN [raised |-> FALSE, added |-> 0]
        ELSE IF outcome.kind = "ok" THEN [raised |-> FALSE, added |-> Len(ids)]
        ELSE [raised |-> FALSE, added |-> 0]

vector_search_unguarded(outcome) ==
    IF outcome.kind = "ok" THEN [raised |-> FALSE, results |-> outcome.results]
    ELSE [raised |-> TRUE, results |-> 0]

\* VectorStore.search / search_by_topic -> the formatted results, kept as
\* their number; outcome is what collection.query does: it returns that
\* many documents or raises.
vector_search(outcome) ==
    IF outcome.kind = "ok" THEN [raised |-> FALSE, results |-> outcome.results]
    ELSE [raised |-> FALSE, results |-> 0]

\* ------------------------------------------------- aggregation and ranking

\* list.sort(key=..., reverse=True): descending and stable.  key is a
\* function over the elements.
InsertDescTiesFirst(sorted, x, key) ==
    LET p == Cardinality({i \in 1..Len(sorted) : key[sorted[i]] > key[x]})
    IN  SubSeq(sorted, 1, p) \o <<x>> \o SubSeq(sorted, p + 1, Len(sorted))

InsertDesc(sorted, x, key) ==
    LET p == Cardinality({i \in 1..Len(sorted) : key[sorted[i]] >= key[x]})
    IN  SubSeq(sorted, 1, p) \o <<x>> \o SubSeq(sorted, p + 1, Len(sorted))

RECURSIVE SortDescInto(_, _, _)
SortDescInto(sorted, rest, key) ==
    IF rest = <<>> THEN sorted
    ELSE SortDescInto(InsertDesc(sorted, Head(rest), key), Tail(rest), key)

SortDesc(s, key) == SortDescInto(<<>>, s, key)

RECURSIVE DedupIntoLastWins(_, _, _)
DedupIntoLastWins(aggregated, seen_urls, rest) ==
    IF rest = <<>> THEN aggregated
    ELSE LET result == Head(rest)
             others == SelectSeq(aggregated, LAMBDA x : x.url # result.url)
         IN  IF result.url # "" /\ ~result.is_summary
             THEN DedupIntoLastWins(Append(others, result), seen_urls, Tail(rest))
             ELSE DedupIntoLastWins(aggregated, seen_urls, Tail(rest))

RECURSIVE DedupIntoKeepsUrlless(_, _, _)
\* The loop without the test that the URL is not empty.
DedupIntoKeepsUrlless(aggregated, seen_urls, rest) ==
    IF rest = <<>> THEN aggregated
    ELSE LET result == Head(rest)
             url    == result.url
         IN  IF (url = "" \/ url \notin seen_urls) /\ ~result.is_summary
             THEN DedupIntoKeepsUrlless(Append(aggregated, result),
                                        seen_urls \cup {url}, Tail(rest))
             ELSE DedupIntoKeepsUrlless(aggregated, seen_urls, Tail(rest))

RECURSIVE DedupInto(_, _, _)
\* the loop of WebSearcher.aggregate_results over the flattened results
DedupInto(aggregated, seen_urls, rest) ==
    IF rest = <<>> THEN aggregated
    ELSE LET result == Head(rest)
             url    == result.url
         IN  IF url # "" /\ url \notin seen_urls /\ ~result.is_summary
             THEN DedupInto(Append(aggregated, result), seen_urls \cup {url}, Tail(rest))
             ELSE DedupInto(aggregated, seen_urls, Tail(rest))

\* WebSearcher.aggregate_results(multi_results); multi_results is the tuple
\* of the per-query result lists in dict order.
web_aggregate_results(multi_results) ==
    LET aggregated == DedupInto(<<>>, {}, Concat(multi_results))
    IN  SortDesc(aggregated, [x \in Range(aggregated) |-> x.score])

\* What happens to an agent's request: it comes back with records ("ok"),
\* the connection fails ("network"), the status is not 200 ("status"), or
\* the body cannot be parsed ("malformed").
Ok(results) == [kind |-> "ok", results |-> results]
Failed(kind) == [kind |-> kind, results |-> <<>>]
FailureKinds == {"network", "status", "malformed"}

agent_fetch_propagates(outcome) ==
    CASE outcome.kind = "ok"     -> [raised |-> FALSE, results |-> outcome.results]
      [] outcome.kind = "status" -> [raised |-> FALSE, results |-> <<>>]
      [] OTHER                   -> [raised |-> TRUE, results |-> <<>>]

\* ArxivAgent.fetch / WikipediaAgent.fetch / NewsAgent.fetch: the parsed
\* records on a 200, [] on another status, and [] from the except clause
\* when the request or the parsing raised.
agent_fetch(outcome) ==
    CASE outcome.kind = "ok"     -> [raised |-> FALSE, results |-> outcome.results]
      [] outcome.kind = "status" -> [raised |-> FALSE, results |-> <<>>]
      [] OTHER                   -> [raised |-> FALSE, results |-> <<>>]

\* results[source] = value on a dict kept as the tuple of its items
DictSet(results, source, value) ==
    IF \E i \in 1..Len(results) : results[i].source = source
    THEN [i \in 1..Len(results) |->
            IF results[i].source = source
            THEN [source |-> source, results |-> value] ELSE results[i]]
    ELSE Append(results, [source |-> source, results |-> value])

RECURSIVE FetchInto(_, _, _, _)
\* the loop of fetch_all over the requested sources
FetchInto(results, agents, rest, outcomes) ==
    IF rest = <<>> THEN [raised |-> FALSE, results |-> results]
    ELSE LET source == Head(rest)
         IN  IF source \in Range(agents)
             THEN LET got == agent_fetch(outcomes[source])
                  IN  IF got.raised THEN [raised |-> TRUE, results |-> <<>>]
                      ELSE FetchInto(DictSet(results, source, got.results),
                                     agents, Tail(rest), outcomes)
             ELSE FetchInto(results, agents, Tail(rest), outcomes)

\* The sources argument of fetch_all: None, or a list of names.
AllSources == [none |-> TRUE, names |-> <<>>]
Sources(names) == [none |-> FALSE, names |-> names]

\* DataSourceAggregator.fetch_all(topic, sources); agents is the tuple of
\* the registered agents' names in registration order, outcomes what
\* happens to each agent's request.
fetch_all(agents, sources, outcomes) ==
    FetchInto(<<>>, agents, IF sources.none THEN agents ELSE sources.names, outcomes)

\* The agents ResearchEngine registers without a news API key (main.py
\* gives none), and with one.
Agents == <<"arxiv", "wikipedia">>
AgentsWithNews == <<"arxiv", "wikipedia", "news">>

\* dict.values() of a dict kept as the tuple of its items
DictValues(results) == [i \in 1..Len(results) |-> results[i].results]

\* DataSourceAggregator.aggregate_results(multi_source_results)
realtime_aggregate_results(multi_source_results) ==
    LET all_results == Concat(multi_source_results)
    IN  SortDesc(all_results, [x \in Range(all_results) |-> x.date])

\* ResearchEngine._combine_sources
combine_sources(web_results, realtime_results) ==
    [i \in 1..Len(web_results) |-> [web_results[i] EXCEPT !.channel = "web_search"]]
    \o [i \in 1..Len(realtime_results) |->
          [realtime_results[i] EXCEPT !.channel = "realtime"]]

\* WebSearcher.score_credibility: the substring tests on the sample URLs and
\* titles, then the clamp.  Thousandths.
\* URLs for every combination of the three domain lists: ".edu" is in
\* authoritative_domains, "bbc." in reputable_sources, "reddit." in
\* low_credibility.
UrlBbc == "https://bbc.com/n"
UrlBbcEdu == "https://bbc.mit.edu/n"
UrlRedditEdu == "https://reddit.mit.edu/r"
UrlBbcReddit == "https://bbc.reddit.com/r"
UrlBbcRedditEdu == "https://bbc.reddit.mit.edu/r"

InAuthoritative(url) == url \in {UrlEdu, UrlBbcEdu, UrlRedditEdu, UrlBbcRedditEdu}
InReputable(url) == url \in {UrlBbc, UrlBbcEdu, UrlBbcReddit, UrlBbcRedditEdu}
InLowCredibility(url) ==
    url \in {UrlReddit, UrlRedditEdu, UrlBbcReddit, UrlBbcRedditEdu}

\* str.lower() on the letters
UpperLetters ==
    <<"A", "B", "C", "D", "E", "F", "G", "H", "I", "J", "K", "L", "M",
      "N", "O", "P", "Q", "R", "S", "T", "U", "V", "W", "X", "Y", "Z">>
LowerLetters ==
    <<"a", "b", "c", "d", "e", "f", "g", "h", "i", "j", "k", "l", "m",
      "n", "o", "p", "q", "r", "s", "t", "u", "v", "w", "x", "y", "z">>

lower(text) ==
    [i \in 1..Len(text) |->
        IF \E k \in 1..26 : UpperLetters[k] = text[i]
        THEN LowerLetters[CHOOSE k \in 1..26 : UpperLetters[k] = text[i]]
        ELSE text[i]]

research_keywords ==
    { <<"r", "e", "s", "e", "a", "r", "c", "h">>, <<"s", "t", "u", "d", "y">>,
      <<"a", "n", "a", "l", "y", "s", "i", "s">>, <<"j", "o", "u", "r", "n", "a", "l">>,
      <<"p", "a", "p", "e", "r">> }

\* any(keyword in title) on title = result.get('title', '').lower()
HasResearchKeyword(title) ==
    \E keyword \in research_keywords : FirstMatch(lower(title), keyword) # 0

\* A title with a research keyword, capitalised.
TitleStudy == <<"A", " ", "S", "t", "u", "d", "y">>

score_credibility_unclamped(result) ==
    500
    + (IF InAuthoritative(result.url) THEN 300 ELSE 0)
    + (IF InReputable(result.url) THEN 200 ELSE 0)
    - (IF InLowCredibility(result.url) THEN 200 ELSE 0)
    + (IF HasResearchKeyword(result.title) THEN 100 ELSE 0)

score_credibility(result) ==
    LET score == 500
                 + (IF InAuthoritative(result.url) THEN 300 ELSE 0)
                 + (IF InReputable(result.url) THEN 200 ELSE 0)
                 - (IF InLowCredibility(result.url) THEN 200 ELSE 0)
                 + (IF HasResearchKeyword(result.title) THEN 100 ELSE 0)
    IN  IF score < 0 THEN 0 ELSE IF score > 1000 THEN 1000 ELSE score

\* The age brackets with the scores of the second and third swapped.
calculate_recency_score_swapped(date) ==
    IF date = 0 THEN 300
    ELSE IF date < 0 THEN 300
    ELSE LET days_old == Now - date
         IN  IF days_old < 30 THEN 1000
             ELSE IF days_old < 90 THEN 600
             ELSE IF days_old < 180 THEN 800
             ELSE IF days_old < 365 THEN 400
             ELSE 200

\* ResearchEngine._calculate_recency_score; date 0 is the empty string, a
\* negative date a string on which fromisoformat or the subtraction raises.
calculate_recency_score(date) ==
    IF date = 0 THEN 300
    ELSE IF date < 0 THEN 300
    ELSE LET days_old == Now - date
         IN  IF days_old < 30 THEN 1000
             ELSE IF days_old < 90 THEN 800
             ELSE IF days_old < 180 THEN 600
             ELSE IF days_old < 365 THEN 400
             ELSE 200

\* final_score of one source, in units of 1/10000
final_score(source) ==
    4 * source.score + 4 * score_credibility(source)
    + calculate_recency_score(source.date)
    + (IF source.channel = "realtime" THEN 1000 ELSE 0)

\* The sort keyed on the search score alone.
rank_by_base_score(sources) ==
    SortDesc(sources, [x \in Range(sources) |-> x.score])

\* ResearchEngine._score_and_rank_sources
score_and_rank_sources(sources) ==
    SortDesc(sources, [x \in Range(sources) |-> final_score(x)])

\* The filter on the whole list, without the cut at the 20 first.
analyze_sources_uncut(scored_sources) ==
    SelectSeqBy(scored_sources, [x \in Range(scored_sources) |-> x.clen >= MIN_CONTENT])

\* ResearchEngine._analyze_sources(topic, scored_sources[:20])
analyze_sources(scored_sources) ==
    LET top == Take(scored_sources, TOP_K)
    IN  SelectSeqBy(top, [x \in Range(top) |-> x.clen >= MIN_CONTENT])

\* ------------------------------------------------------------- the pipeline

\* conduct_research: the stages in order and the percent each one reports
StageNames ==
    <<"START", "QUERIES", "SEARCH", "REALTIME", "SCORE", "INDEX", "ANALYZE",
      "RETRIEVE", "SYNTHESIZE", "CITE", "BIBLIOGRAPHY", "DONE">>

NumStages == Len(StageNames)

PercentsDip == <<0, 10, 20, 35, 45, 55, 65, 60, 75, 85, 90, 100>>

Percents == <<0, 10, 20, 35, 45, 55, 65, 70, 75, 85, 90, 100>>

HasWorkSkip(k) == k \in (2..(NumStages - 1)) \ {8}

\* START and DONE only report; every other stage reports, then works.
HasWork(k) == k \in 2..(NumStages - 1)

\* Stages whose work runs code outside every try/except (a sort over the
\* fetched records, arithmetic on their scores, string methods on their
\* fields), so that a malformed record raises out of conduct_research.
\* generate_queries and search_by_topic catch every Exception themselves.
RaisingStages ==
    {"SEARCH", "REALTIME", "SCORE", "INDEX", "ANALYZE", "SYNTHESIZE", "CITE",
     "BIBLIOGRAPHY"}

\* ---------------------------------------------------------------- inputs

W1 == Src(UrlPlain, TitleLong, 900, 120, Now - 10)
W2 == Src(UrlReddit, TitleShort, 500, 50, 0)
R1 == Src("", TitleLong, 500, 150, Now - 400)
R2 == Src(UrlEdu, TitleShort, 500, 200, Now)

\* What a request and the engine's collaborators may bring, per
\* specification:
\*   depths    the request's depth parameter
\*   formats   the request's format parameter
\*   llm       lines of the LLM's answer to the query prompt; 0 when
\*             generate() caught an error and returned ""
\*   web       multi_search results: per query, the list search() returned
\*   realtime  per agent (arxiv, wikipedia), what happens to its request
\*   synthesis the LLM's synthesis; empty when generate() returned ""
\*   store_add   what collection.add does in the INDEX stage
\*   store_query what collection.query does in the RETRIEVE stage: it
\*             returns that many documents, or raises
\*   backlog   TRUE when the consumer loop runs and the queue's backlog is
\*             kept within MaxQueue
SequentialEnv ==
    [depths    |-> {"quick", "standard", "deep"},
     formats   |-> {"screen", "pdf"},
     llm       |-> {0, 10},
     web       |-> { <<>>, << <<AISummary, W1>>, <<W1, W2>> >> },
     realtime  |-> { ("arxiv" :> Ok(<<>>)) @@ ("wikipedia" :> Ok(<<>>)),
                     ("arxiv" :> Ok(<<R1>>)) @@ ("wikipedia" :> Failed("network")),
                     ("arxiv" :> Ok(<<R2>>)) @@ ("wikipedia" :> Ok(<<R1>>)) },
     synthesis |-> { <<>>, TitleLong \o <<".">> },
     store_add   |-> { Ok(0), Failed("store") },
     store_query |-> { Ok(2), Failed("store") },
     backlog   |-> FALSE]

ConcurrentEnv ==
    [depths    |-> {"quick"},
     formats   |-> {"pdf"},
     llm       |-> {10},
     web       |-> { <<>> },
     realtime  |-> { ("arxiv" :> Ok(<<R2>>)) @@ ("wikipedia" :> Ok(<<>>)) },
     synthesis |-> { <<>> },
     store_add   |-> { Ok(0) },
     store_query |-> { Ok(0) },
     backlog   |-> TRUE]

\* A search that returns MaxSources records with URLs and scores of their
\* own, every third with content under 100 characters.
LargeRecord(i) ==
    Src("https://example.com/" \o ToString(i), TitleShort, 1000 - 10 * i,
        IF i % 3 = 0 THEN 50 ELSE 150, 0)

LargeResults == [i \in 1..MaxSources |-> LargeRecord(i)]

LargeEnv ==
    [depths    |-> {"quick", "standard"},
     formats   |-> {"screen", "pdf"},
     llm       |-> {10},
     web       |-> { << <<AISummary>> \o LargeResults >>, << <<W1>> >> },
     realtime  |-> { ("arxiv" :> Ok(<<R2>>)) @@ ("wikipedia" :> Ok(<<>>)) },
     synthesis |-> { <<>> },
     store_add   |-> { Ok(0), Failed("store") },
     store_query |-> { Ok(0) },
     backlog   |-> FALSE]

StreamEnv ==
    [depths    |-> {"quick", "standard"},
     formats   |-> {"screen", "pdf"},
     llm       |-> {10},
     web       |-> { <<>> },
     realtime  |-> { ("arxiv" :> Ok(<<R2>>)) @@ ("wikipedia" :> Ok(<<>>)) },
     synthesis |-> { <<>> },
     store_add   |-> { Ok(0), Failed("store") },
     store_query |-> { Ok(0) },
     backlog   |-> TRUE]

\* ------------------------------------------------------------------ state

VARIABLES
    \* ResearchEngine (one instance, module level in main.py)
    progress_callback,  \* the request whose callback is installed, 0 for None
    current_progress,
    max_queries,
    citations,          \* citation_manager.citations
    citation_map,       \* citation_manager.citation_map
    \* research_stream: one entry per request being served
    runs,               \* requests received so far
    request,            \* [depth, format]
    pc,                 \* where the request's run_research thread stands
    frame,              \* the thread's locals
    queue,              \* progress_queue
    consumer,           \* the generate() loop: idle, waiting, stopped
    \* observations
    runlog,             \* what the run did, in order
    puts,               \* what was put on the request's queue, summarised
    stream,             \* what generate() yielded last: none, progress, keepalive,
                        \* complete, error
    last                \* the last CitationManager call (CitationManager spec)

vars ==
    <<progress_callback, current_progress, max_queries, citations, citation_map,
      runs, request, pc, frame, queue, consumer, runlog, puts, stream, last>>

engine_vars == <<progress_callback, current_progress, max_queries>>
cm_vars == <<citations, citation_map>>
server_vars == <<runs, request, pc, frame, queue, consumer, runlog, puts, stream>>

\* Requests in service at the same time; a later request takes the place of
\* one whose thread has finished.
Requests == {1, 2}

Manager == [citations |-> citations, citation_map |-> citation_map]

NoResult ==
    [queries |-> 0, sources |-> <<>>, synthesis |-> <<>>, bibliography |-> <<>>,
     citations |-> <<>>, total_sources |-> 0, analyzed_sources |-> 0,
     depth |-> "", format |-> ""]

\* fetched: the records the searches and the agents returned so far;
\* store_failed: the stages in which the vector store raised;
\* cite_pos: how many of the analyzed sources the loop of _add_citations has
\* passed; citation_num: add_citation's local; cite_nums: the numbers under
\* which this run's add_citation calls appended an entry.
NoFrame ==
    [stage |-> 0, original_max |-> 0, queries |-> 0, aggregated_results |-> <<>>,
     realtime_results |-> <<>>, all_sources |-> <<>>, analyzed_sources |-> <<>>,
     synthesis |-> <<>>, cited_synthesis |-> <<>>, bibliography |-> <<>>,
     result |-> NoResult,
     fetched |-> 0, indexed |-> 0, rag_context |-> 0, store_failed |-> {},
     cite_pos |-> 0, citation_num |-> 0, cite_nums |-> <<>>]

NoPuts == [last |-> -1, decreased |-> FALSE, terminals |-> 0, late |-> FALSE,
           foreign |-> FALSE]

NoStream == "none"

\* The last call on the manager: its name, the url of the source given to
\* add_citation, the number returned, the manager before the call, the text
\* and the sources given, the text insert_citations returned, and per URL the number that the first
\* add_citation call since the last reset returned (0: not called yet).
NoIssued == [u \in URLs |-> 0]

NoCall == [op |-> "none", url |-> "", num |-> 0, before |-> EmptyManager,
           in_text |-> <<>>, sources |-> <<>>, text |-> <<>>,
           issued_before |-> NoIssued, issued |-> NoIssued]

Init ==
    /\ progress_callback = 0
    /\ current_progress = 0
    /\ max_queries = MAX_QUERIES
    /\ citations = <<>>
    /\ citation_map = <<>>
    /\ runs = 0
    /\ request = [r \in Requests |-> [depth |-> "", format |-> ""]]
    /\ pc = [r \in Requests |-> "idle"]
    /\ frame = [r \in Requests |-> NoFrame]
    /\ queue = [r \in Requests |-> <<>>]
    /\ consumer = [r \in Requests |-> "idle"]
    /\ runlog = [r \in Requests |-> <<>>]
    /\ puts = [r \in Requests |-> NoPuts]
    /\ stream = [r \in Requests |-> NoStream]
    /\ last = NoCall

\* ----------------------------------------------------------------- events

ProgressEvent(percent, r) ==
    [event |-> "progress", percent |-> percent, from |-> r, error |-> "",
     data |-> NoResult]

CompleteEvent(result, r) ==
    [event |-> "complete", percent |-> -1, from |-> r, error |-> "", data |-> result]

ErrorEvent(text, r) ==
    [event |-> "error", percent |-> -1, from |-> r, error |-> text, data |-> NoResult]

IsTerminal(e) == e.event \in {"complete", "error"}

\* What one more put adds to the summary of the puts on request q's queue.
Observe(s, q, e) ==
    [last      |-> IF e.event = "progress" THEN e.percent ELSE s.last,
     decreased |-> s.decreased \/ (e.event = "progress" /\ e.percent < s.last),
     terminals |-> s.terminals + (IF IsTerminal(e) THEN 1 ELSE 0),
     late      |-> s.late \/ s.terminals > 0,
     foreign   |-> s.foreign \/ (e.event = "progress" /\ e.from # q)]

\* progress_queue.put(e) on request q's queue.  The queue is unbounded.  With
\* E.backlog the model keeps a backlog of MaxQueue and lets the put wait for
\* the consumer; once the consumer has left its loop nothing reads the queue
\* again and the model stops storing what is put on it.
Put(q, e, E) ==
    /\ E.backlog => (consumer[q] = "stopped" \/ Len(queue[q]) < MaxQueue)
    /\ queue' = IF E.backlog /\ consumer[q] = "stopped" THEN queue
                ELSE [queue EXCEPT ![q] = Append(@, e)]
    /\ puts' = [puts EXCEPT ![q] = Observe(@, q, e)]

Log(r, kind, k) ==
    [runlog EXCEPT ![r] =
        Append(@, [kind |-> kind, stage |-> StageNames[k], percent |-> Percents[k]])]

\* ---------------------------------------------------- research_stream

\* The place of request r is free: never used, or its thread has finished
\* (and, where the consumer is modelled, its stream has ended).
Free(r, E) ==
    \/ pc[r] = "idle"
    \/ pc[r] = "finished" /\ (E.backlog => consumer[r] = "stopped")

\* generate(): a request arrives; its queue is created and its thread
\* started.  The callback of the request that had this place keeps its own
\* queue, which nobody reads any more (callback -1).
StartRequest(r, E, alone) ==
    /\ runs < MaxRuns
    /\ Free(r, E)
    /\ \A o \in Requests : o < r => ~Free(o, E)
    /\ alone => \A o \in Requests : Free(o, E)
    /\ runs' = runs + 1
    /\ \E d \in E.depths, f \in E.formats :
          request' = [request EXCEPT ![r] = [depth |-> d, format |-> f]]
    /\ pc' = [pc EXCEPT ![r] = "set_cb"]
    /\ consumer' = [consumer EXCEPT ![r] = "waiting"]
    /\ frame' = [frame EXCEPT ![r] = NoFrame]
    /\ queue' = [queue EXCEPT ![r] = <<>>]
    /\ runlog' = [runlog EXCEPT ![r] = <<>>]
    /\ puts' = [puts EXCEPT ![r] = NoPuts]
    /\ stream' = [stream EXCEPT ![r] = NoStream]
    /\ progress_callback' = IF progress_callback = r THEN -1 ELSE progress_callback
    /\ UNCHANGED <<current_progress, max_queries, cm_vars, last>>

\* run_research: research_engine.set_progress_callback(progress_callback)
SetCallback(r) ==
    /\ pc[r] = "set_cb"
    /\ progress_callback' = r
    /\ IF request[r].depth = "standard"
       THEN /\ pc' = [pc EXCEPT ![r] = "emit"]
            /\ frame' = [frame EXCEPT ![r].stage = 1]
       ELSE /\ pc' = [pc EXCEPT ![r] = "save_max"]
            /\ frame' = frame
    /\ UNCHANGED <<current_progress, max_queries, cm_vars, runs, request, queue,
                   consumer, runlog, puts, stream, last>>

\* quick_research / deep_research: original_max = self.max_queries
SaveMax(r) ==
    /\ pc[r] = "save_max"
    /\ frame' = [frame EXCEPT ![r].original_max = max_queries]
    /\ pc' = [pc EXCEPT ![r] = "set_max"]
    /\ UNCHANGED <<engine_vars, cm_vars, runs, request, queue, consumer, runlog, puts,
                   stream, last>>

\* quick_research / deep_research: self.max_queries = 3 (8)
SetMax(r) ==
    /\ pc[r] = "set_max"
    /\ max_queries' = IF request[r].depth = "quick" THEN QUICK_QUERIES ELSE DEEP_QUERIES
    /\ pc' = [pc EXCEPT ![r] = "emit"]
    /\ frame' = [frame EXCEPT ![r].stage = 1]
    /\ UNCHANGED <<progress_callback, current_progress, cm_vars, runs, request, queue,
                   consumer, runlog, puts, stream, last>>

\* The dict conduct_research returns.
BuildResult(r) ==
    LET f == frame[r]
    IN  [queries          |-> f.queries,
         sources          |-> f.analyzed_sources,
         synthesis        |-> f.cited_synthesis,
         bibliography     |-> f.bibliography,
         citations        |-> export_citations(Manager),
         total_sources    |-> Len(f.all_sources),
         analyzed_sources |-> Len(f.analyzed_sources),
         depth            |-> request[r].depth,
         format           |-> ""]

\* Where the thread goes after the report of stage k: into the stage's work,
\* on to the next report (START), or out of conduct_research (DONE).
AfterEmit(r, k) ==
    IF HasWork(k) THEN "work"
    ELSE IF k < NumStages THEN "emit"
    ELSE IF request[r].depth = "standard" THEN "export" ELSE "restore"

\* _update_progress(percent, message) at the head of a stage; after the last
\* one conduct_research returns its result.
Emit(r, E) ==
    LET k == frame[r].stage
    IN  /\ pc[r] = "emit"
        /\ current_progress' = Percents[k]
        /\ IF progress_callback \in Requests
           THEN Put(progress_callback, ProgressEvent(Percents[k], r), E)
           ELSE UNCHANGED <<queue, puts>>
        /\ runlog' = Log(r, "emit", k)
        /\ pc' = [pc EXCEPT ![r] = AfterEmit(r, k)]
        /\ frame' = [frame EXCEPT ![r] =
                       IF HasWork(k) THEN @
                       ELSE IF k < NumStages THEN [@ EXCEPT !.stage = k + 1]
                       ELSE [@ EXCEPT !.result = BuildResult(r)]]
        /\ UNCHANGED <<progress_callback, max_queries, cm_vars, runs, request, consumer,
                       stream, last>>

\* What the stage's collaborators may hand back.
WorkInputs(r, E) ==
    LET name == StageNames[frame[r].stage]
    IN  CASE name = "QUERIES"    -> E.llm
          [] name = "SEARCH"     -> IF frame[r].queries = 0 THEN {<<>>} ELSE E.web
          [] name = "REALTIME"   -> E.realtime
          [] name = "INDEX"      -> E.store_add
          [] name = "RETRIEVE"   -> E.store_query
          [] name = "SYNTHESIZE" -> E.synthesis
          [] OTHER               -> {0}

\* The thread's locals after the stage's work, given what came back.
FrameAfterWork(f, name, inp, cm) ==
    CASE name = "QUERIES" ->
            \* queries[:num_queries], num_queries = self.max_queries
            [f EXCEPT !.queries = Min(inp, max_queries)]
      [] name = "SEARCH" ->
            [f EXCEPT !.aggregated_results = web_aggregate_results(inp),
                      !.fetched = @ + Len(Concat(inp))]
      [] name = "REALTIME" ->
            \* realtime_data = fetch_all(topic); aggregate_results(realtime_data)
            [f EXCEPT !.realtime_results =
                          realtime_aggregate_results(
                              DictValues(fetch_all(Agents, AllSources, inp).results)),
                      !.fetched =
                          @ + Len(Concat(DictValues(
                                      fetch_all(Agents, AllSources, inp).results)))]
      [] name = "SCORE" ->
            \* the two lists are not read again
            [f EXCEPT !.all_sources =
                          score_and_rank_sources(
                              combine_sources(f.aggregated_results, f.realtime_results)),
                      !.aggregated_results = <<>>,
                      !.realtime_results = <<>>]
      [] name = "INDEX" ->
            [f EXCEPT !.indexed = vector_add_documents(f.all_sources, inp).added,
                      !.store_failed = IF inp.kind = "ok" THEN @ ELSE @ \cup {name}]
      [] name = "ANALYZE" ->
            [f EXCEPT !.analyzed_sources = analyze_sources(f.all_sources)]
      [] name = "RETRIEVE" ->
            [f EXCEPT !.rag_context = vector_search(inp).results,
                      !.store_failed = IF inp.kind = "ok" THEN @ ELSE @ \cup {name}]
      [] name = "SYNTHESIZE" ->
            [f EXCEPT !.synthesis = inp]
      [] name = "CITE" ->
            [f EXCEPT !.cited_synthesis =
                          engine_add_citations(cm, f.synthesis, f.analyzed_sources).text]
      [] name = "BIBLIOGRAPHY" ->
            [f EXCEPT !.bibliography = generate_bibliography(cm)]
      [] OTHER -> f

\* The citation manager after the stage's work.
ManagerAfterWork(f, name, cm) ==
    IF name = "CITE"
    THEN engine_add_citations(cm, f.synthesis, f.analyzed_sources).cm
    ELSE cm

\* The vector store's exception leaves the stage.
StoreRaised(f, name, inp) ==
    \/ name = "INDEX" /\ vector_add_documents(f.all_sources, inp).raised
    \/ name = "RETRIEVE" /\ vector_search(inp).raised

\* The stage has a record in hand that may be malformed.
HasRecords(r, E) ==
    LET f    == frame[r]
        name == StageNames[f.stage]
    IN  CASE name = "SEARCH" ->
                \E inp \in WorkInputs(r, E) : Concat(inp) # <<>>
          [] name = "REALTIME" ->
                \E inp \in WorkInputs(r, E) :
                    \E a \in DOMAIN inp : inp[a].results # <<>>
          [] name = "SCORE" -> f.aggregated_results \o f.realtime_results # <<>>
          [] name \in {"INDEX", "ANALYZE"} -> f.all_sources # <<>>
          [] name \in {"SYNTHESIZE", "CITE"} -> f.analyzed_sources # <<>>
          [] name = "BIBLIOGRAPHY" -> citations # <<>>
          [] OTHER -> FALSE

\* The work of the stage returns.
Work(r, E) ==
    LET k    == frame[r].stage
        name == StageNames[k]
    IN  /\ pc[r] = "work"
        /\ \E inp \in WorkInputs(r, E) :
              /\ ~StoreRaised(frame[r], name, inp)
              /\ frame' = [frame EXCEPT ![r] =
                          [FrameAfterWork(@, name, inp, Manager) EXCEPT !.stage = k + 1]]
        /\ citations' = ManagerAfterWork(frame[r], name, Manager).citations
        /\ citation_map' = ManagerAfterWork(frame[r], name, Manager).citation_map
        /\ pc' = [pc EXCEPT ![r] = "emit"]
        /\ runlog' = Log(r, "work", k)
        /\ UNCHANGED <<engine_vars, runs, request, queue, consumer, puts, stream, last>>

AfterRaiseResume(r) == "emit"

\* Where the thread goes when the stage's work raises: straight to
\* run_research's except clause, which puts the error event and ends.
AfterRaise(r) == "finished"

\* The work of the stage raises: the exception leaves conduct_research (and
\* quick_research / deep_research) and run_research's handler puts the error.
Raise(r, E) ==
    LET k == frame[r].stage
    IN  /\ pc[r] = "work"
        /\ \/ /\ StageNames[k] \in RaisingStages
              /\ HasRecords(r, E)
              /\ Put(r, ErrorEvent(StageNames[k], r), E)
           \/ /\ \E inp \in WorkInputs(r, E) : StoreRaised(frame[r], StageNames[k], inp)
              /\ Put(r, ErrorEvent("vector store", r), E)
        /\ pc' = [pc EXCEPT ![r] = AfterRaise(r)]
        /\ runlog' = Log(r, "raise", k)
        /\ UNCHANGED <<engine_vars, cm_vars, runs, request, frame, consumer, stream,
                       last>>

\* quick_research / deep_research: self.max_queries = original_max
Restore(r) ==
    /\ pc[r] = "restore"
    /\ max_queries' = frame[r].original_max
    /\ pc' = [pc EXCEPT ![r] = "export"]
    /\ UNCHANGED <<progress_callback, current_progress, cm_vars, runs, request, frame,
                   queue, consumer, runlog, puts, stream, last>>

\* run_research after the engine returned: the files are written (if asked
\* for) and the complete event is put.
Export(r, E) ==
    /\ pc[r] = "export"
    /\ Put(r, CompleteEvent([frame[r].result EXCEPT !.format = request[r].format], r), E)
    /\ pc' = [pc EXCEPT ![r] = "finished"]
    /\ UNCHANGED <<engine_vars, cm_vars, runs, request, frame, consumer, runlog, stream,
                   last>>

\* pdf_generator.generate / docx_generator.generate raises
ExportFail(r, E) ==
    /\ pc[r] = "export"
    /\ request[r].format # "screen"
    /\ Put(r, ErrorEvent("export", r), E)
    /\ pc' = [pc EXCEPT ![r] = "finished"]
    /\ UNCHANGED <<engine_vars, cm_vars, runs, request, frame, consumer, runlog, stream,
                   last>>

\* generate(): update = progress_queue.get(timeout=30); yield it; leave the
\* loop after a complete or error event.
Get(r) ==
    /\ consumer[r] = "waiting"
    /\ queue[r] # <<>>
    /\ LET update == Head(queue[r])
       IN  /\ stream' = [stream EXCEPT ![r] = update.event]
           /\ consumer' = [consumer EXCEPT ![r] =
                             IF IsTerminal(update) THEN "stopped" ELSE "waiting"]
    /\ queue' = [queue EXCEPT ![r] = Tail(@)]
    /\ UNCHANGED <<engine_vars, cm_vars, runs, request, pc, frame, runlog, puts, last>>

\* The loop taking queue.Empty for the end of the run.
TimeoutStops(r) ==
    /\ consumer[r] = "waiting"
    /\ queue[r] = <<>>
    /\ stream' = [stream EXCEPT ![r] = "keepalive"]
    /\ consumer' = [consumer EXCEPT ![r] = "stopped"]
    /\ UNCHANGED <<engine_vars, cm_vars, runs, request, pc, frame, queue, runlog, puts,
                   last>>

\* generate(): queue.Empty after 30 s: yield a keepalive and wait again.
Timeout(r) ==
    /\ consumer[r] = "waiting"
    /\ queue[r] = <<>>
    /\ stream' = [stream EXCEPT ![r] = "keepalive"]
    /\ UNCHANGED <<engine_vars, cm_vars, runs, request, pc, frame, queue, consumer,
                   runlog, puts, last>>

\* One step of request r's run_research thread.
ThreadStep(r, E) ==
    \/ SetCallback(r)
    \/ SaveMax(r)
    \/ SetMax(r)
    \/ Emit(r, E)
    \/ Work(r, E)
    \/ Raise(r, E)
    \/ Restore(r)
    \/ Export(r, E)
    \/ ExportFail(r, E)

\* Requests served one after the other on the shared engine; what each
\* run's thread puts on its queue.
Next ==
    \E r \in Requests :
        \/ StartRequest(r, SequentialEnv, TRUE)
        \/ ThreadStep(r, SequentialEnv)

Spec == Init /\ [][Next]_vars

\* Requests served concurrently on the shared engine (app.run(threaded=True)),
\* each with its consumer loop taking what is put.  A keepalive changes
\* nothing the threads or the loop read and is left out here.
NextConcurrent ==
    \E r \in Requests :
        \/ StartRequest(r, ConcurrentEnv, FALSE)
        \/ ThreadStep(r, ConcurrentEnv)
        \/ Get(r)

SpecConcurrent == Init /\ [][NextConcurrent]_vars

\* -------------------------------------------- VectorStore._split_text

\* text[start:end] of Python: negative indexes count from the end, indexes
\* beyond the ends are clipped.
SliceIndex(text, i) ==
    IF i < 0 THEN (IF i + Len(text) < 0 THEN 0 ELSE i + Len(text))
    ELSE Min(i, Len(text))

Slice(text, start, end) ==
    LET from == SliceIndex(text, start)
        to   == SliceIndex(text, end)
    IN  IF to <= from THEN <<>> ELSE SubSeq(text, from + 1, to)

\* str.rfind(ch): the highest index (from 0) of ch, -1 when there is none
rfind(text, ch) ==
    LET hits == {i \in 1..Len(text) : text[i] = ch}
    IN  IF hits = {} THEN -1 ELSE (CHOOSE i \in hits : \A j \in hits : j <= i) - 1

Whitespace == {" ", "\n"}

\* str.strip()
strip(text) ==
    LET keep == {i \in 1..Len(text) : text[i] \notin Whitespace}
    IN  IF keep = {} THEN <<>>
        ELSE LET lo == CHOOSE i \in keep : \A j \in keep : i <= j
                 hi == CHOOSE i \in keep : \A j \in keep : j <= i
             IN  SubSeq(text, lo, hi)

Max(a, b) == IF a >= b THEN a ELSE b

\* break_point = max(chunk.rfind('.'), chunk.rfind('\n')) for the chunk
\* text[start:end]; the chunk is bound to its value once.
break_point(text, start, end) ==
    CHOOSE b \in {Max(rfind(chunk, "."), rfind(chunk, "\n")) :
                     chunk \in {Slice(text, start, end)}} : TRUE

\* The window's end with any sentence boundary taken, however early.
split_end_any_break(text, chunk_size, start) ==
    CHOOSE e \in {IF start + chunk_size < Len(text) /\ b >= 0
                  THEN start + b + 1
                  ELSE start + chunk_size :
                      b \in {break_point(text, start, start + chunk_size)}} : TRUE

\* _split_text: end after the try to break at a sentence boundary;
\* break_point > chunk_size * 0.5 on integers
split_end(text, chunk_size, start) ==
    CHOOSE e \in {IF start + chunk_size < Len(text) /\ 2 * b > chunk_size
                  THEN start + b + 1
                  ELSE start + chunk_size :
                      b \in {break_point(text, start, start + chunk_size)}} : TRUE

\* Texts up to MaxText characters of letters, periods and newlines.
SplitAlphabet == {"a", ".", "\n"}

SplitTexts == UNION {[1..n -> SplitAlphabet] : n \in 0..MaxText}

\* Chunk sizes, and per chunk size the overlaps of at most half of it (as
\* CHUNK_OVERLAP is of CHUNK_SIZE).
SplitSizes == {2, 4, 5}

SplitParams ==
    UNION {{<<c, o>> : o \in {v \in 0..c : 2 * v <= c}} : c \in SplitSizes}

SplitCalls ==
    {[op |-> "split_text", text |-> t, chunk_size |-> p[1], overlap |-> p[2],
      start |-> 0, chunks |-> <<>>, windows |-> <<>>, done |-> FALSE] :
        t \in SplitTexts, p \in SplitParams}

\* The store before _chunk_documents reaches a long text.
NoSplit ==
    [op |-> "none", text |-> <<>>, chunk_size |-> 0, overlap |-> 0, start |-> 0,
     chunks |-> <<>>, windows |-> <<>>, done |-> FALSE]

InitSplit ==
    /\ progress_callback = 0
    /\ current_progress = 0
    /\ max_queries = MAX_QUERIES
    /\ citations = <<>>
    /\ citation_map = <<>>
    /\ runs = 0
    /\ request = [r \in Requests |-> [depth |-> "", format |-> ""]]
    /\ pc = [r \in Requests |-> "idle"]
    /\ frame = [r \in Requests |-> NoFrame]
    /\ queue = [r \in Requests |-> <<>>]
    /\ consumer = [r \in Requests |-> "idle"]
    /\ runlog = [r \in Requests |-> <<>>]
    /\ puts = [r \in Requests |-> NoPuts]
    /\ stream = [r \in Requests |-> NoStream]
    /\ last = NoSplit

\* _split_text(text, chunk_size, overlap) called: chunks = [], start = 0
SplitCall ==
    /\ last.op = "none"
    /\ last' \in SplitCalls
    /\ UNCHANGED <<engine_vars, cm_vars, server_vars>>

\* The body of the while loop: the call's locals after one pass.  windows
\* keeps start and end of each pass as they stand at chunks.append.
split_pass(call) ==
    CHOOSE after \in
        {[call EXCEPT
             !.chunks = Append(@, strip(Slice(call.text, call.start, end))),
             !.windows = Append(@, [start |-> call.start, end |-> end]),
             !.start = end - call.overlap] :
                end \in {split_end(call.text, call.chunk_size, call.start)}} : TRUE

\* One pass through the while loop.  No terminating call makes more passes
\* than the text has characters.
SplitIterate ==
    /\ last.op = "split_text"
    /\ ~last.done
    /\ last.start < Len(last.text)
    /\ Len(last.windows) <= MaxText
    /\ last' = split_pass(last)
    /\ UNCHANGED <<engine_vars, cm_vars, server_vars>>

\* while start < len(text) is false: return chunks
SplitReturn ==
    /\ last.op = "split_text"
    /\ ~last.done
    /\ last.start >= Len(last.text)
    /\ last' = [last EXCEPT !.done = TRUE]
    /\ UNCHANGED <<engine_vars, cm_vars, server_vars>>

NextSplit ==
    \/ SplitCall
    \/ SplitIterate
    \/ SplitReturn

\* One call of _split_text; the call runs on until it returns.
SpecSplit ==
    InitSplit /\ [][NextSplit]_vars /\ WF_vars(SplitIterate) /\ WF_vars(SplitReturn)

\* ------------------------------- the CITE stage, statement by statement

\* The analyzed sources of a run that has reached step 9.
CiteRunSamples == {W1, W2, R1}

CiteRunLists ==
    {<<a>> : a \in CiteRunSamples}
    \cup {<<a, b>> : a \in CiteRunSamples, b \in CiteRunSamples}

\* Two requests served at the same time have both reached step 9 of
\* conduct_research, each with its analyzed sources, on the one engine and
\* its one citation manager, which is still empty.
InitCite ==
    /\ progress_callback = 2
    /\ current_progress = Percents[10]
    /\ max_queries = MAX_QUERIES
    /\ citations = <<>>
    /\ citation_map = <<>>
    /\ runs = MaxRuns
    /\ request = [r \in Requests |-> [depth |-> "standard", format |-> "screen"]]
    /\ pc = [r \in Requests |-> "add_citation"]
    /\ frame \in [Requests -> {[NoFrame EXCEPT !.stage = 10, !.analyzed_sources = l] :
                                  l \in CiteRunLists}]
    /\ queue = [r \in Requests |-> <<>>]
    /\ consumer = [r \in Requests |-> "waiting"]
    /\ runlog = [r \in Requests |-> <<>>]
    /\ puts = [r \in Requests |-> NoPuts]
    /\ stream = [r \in Requests |-> NoStream]
    /\ last = NoCall

\* The source the loop of _add_citations is at.
CiteSource(r) == frame[r].analyzed_sources[frame[r].cite_pos + 1]

\* add_citation returns: the loop goes to its next source, or ends.
CiteReturn(r) ==
    IF frame[r].cite_pos + 1 < Len(frame[r].analyzed_sources)
    THEN "add_citation" ELSE "cited"

\* add_citation: if url and url in self.citation_map: return ...
CiteCheck(r) ==
    /\ pc[r] = "add_citation"
    /\ IF CiteSource(r).url # "" /\ CiteSource(r).url \in DOMAIN citation_map
       THEN /\ pc' = [pc EXCEPT ![r] = CiteReturn(r)]
            /\ frame' = [frame EXCEPT ![r].cite_pos = @ + 1]
       ELSE /\ pc' = [pc EXCEPT ![r] = "citation_num"]
            /\ frame' = frame
    /\ UNCHANGED <<engine_vars, cm_vars, runs, request, queue, consumer, runlog, puts,
                   stream, last>>

\* add_citation: citation_num = len(self.citations) + 1
CiteNumber(r) ==
    /\ pc[r] = "citation_num"
    /\ frame' = [frame EXCEPT ![r].citation_num = Len(citations) + 1]
    /\ pc' = [pc EXCEPT ![r] = "append"]
    /\ UNCHANGED <<engine_vars, cm_vars, runs, request, queue, consumer, runlog, puts,
                   stream, last>>

\* add_citation: self.citations.append(source)
CiteAppend(r) ==
    /\ pc[r] = "append"
    /\ citations' = Append(citations, citation_info(CiteSource(r)))
    /\ pc' = [pc EXCEPT ![r] = "set_map"]
    /\ UNCHANGED <<engine_vars, citation_map, runs, request, frame, queue, consumer,
                   runlog, puts, stream, last>>

\* add_citation: if url: self.citation_map[url] = citation_num; return it
CiteMap(r) ==
    /\ pc[r] = "set_map"
    /\ citation_map' = IF CiteSource(r).url # ""
                       THEN (CiteSource(r).url :> frame[r].citation_num) @@ citation_map
                       ELSE citation_map
    /\ frame' = [frame EXCEPT ![r].cite_pos = @ + 1,
                              ![r].cite_nums = Append(@, frame[r].citation_num)]
    /\ pc' = [pc EXCEPT ![r] = CiteReturn(r)]
    /\ UNCHANGED <<engine_vars, citations, runs, request, queue, consumer, runlog, puts,
                   stream, last>>

NextCite ==
    \E r \in Requests :
        \/ CiteCheck(r)
        \/ CiteNumber(r)
        \/ CiteAppend(r)
        \/ CiteMap(r)

\* The add_citation calls of two runs' CITE stages, interleaved between
\* statements.
SpecCite == InitCite /\ [][NextCite]_vars

\* Requests served one after the other, each with its consumer loop: the
\* loop takes what is put, or times out on an empty queue.
NextStream ==
    \E r \in Requests :
        \/ StartRequest(r, StreamEnv, TRUE)
        \/ ThreadStep(r, StreamEnv)
        \/ Get(r)
        \/ Timeout(r)

\* progress_queue.get returns once an item is on the queue.
SpecStream ==
    Init /\ [][NextStream]_vars /\ \A r \in Requests : WF_vars(Get(r))

\* Requests served one after the other, with searches that return more
\* sources than the analysis takes.
NextLarge ==
    \E r \in Requests :
        \/ StartRequest(r, LargeEnv, TRUE)
        \/ ThreadStep(r, LargeEnv)

SpecLarge == Init /\ [][NextLarge]_vars

\* ------------------------------------------ CitationManager on its own

W1b == Src(UrlPlain, TitleShort, 300, 0, 0)

\* Sources handed to the manager: two URLs, one of them under two titles,
\* and a source without URL.
CiteSamples == {W1, W1b, W2, R1}

CiteLists == {<<>>} \cup {<<a>> : a \in CiteSamples}
             \cup {<<a, b>> : a \in CiteSamples, b \in CiteSamples}

CiteTexts == { <<>>, TitleLong \o <<".">> }

CallAddCitation ==
    \E source \in CiteSamples :
        LET r == add_citation(Manager, source)
        IN  /\ Len(r.cm.citations) <= MaxCitations
            /\ citations' = r.cm.citations
            /\ citation_map' = r.cm.citation_map
            /\ last' = [op |-> "add_citation", url |-> source.url, num |-> r.num,
                        before |-> Manager, in_text |-> <<>>,
                        sources |-> <<source>>, text |-> <<>>,
                        issued_before |-> last.issued,
                        issued |-> IF source.url # "" /\ last.issued[source.url] = 0
                                   THEN [last.issued EXCEPT ![source.url] = r.num]
                                   ELSE last.issued]
            /\ UNCHANGED <<engine_vars, server_vars>>

CallInsertCitations(texts, lists) ==
    \E text \in texts, sources \in lists :
        LET r == insert_citations(Manager, text, sources)
        IN  /\ Len(r.cm.citations) <= MaxCitations
            /\ citations' = r.cm.citations
            /\ citation_map' = r.cm.citation_map
            /\ last' = [op |-> "insert_citations", url |-> "", num |-> 0,
                        before |-> Manager, in_text |-> text,
                        sources |-> sources, text |-> r.text,
                        issued_before |-> last.issued, issued |-> last.issued]
            /\ UNCHANGED <<engine_vars, server_vars>>

CallImportCitations ==
    \E sources \in CiteLists :
        LET cm == import_citations(Manager, sources)
        IN  /\ citations' = cm.citations
            /\ citation_map' = cm.citation_map
            /\ last' = [op |-> "import_citations", url |-> "", num |-> 0,
                        before |-> Manager, in_text |-> <<>>,
                        sources |-> sources, text |-> <<>>,
                        issued_before |-> last.issued, issued |-> NoIssued]
            /\ UNCHANGED <<engine_vars, server_vars>>

CallClear ==
    /\ citations' = EmptyManager.citations
    /\ citation_map' = EmptyManager.citation_map
    /\ last' = [op |-> "clear", url |-> "", num |-> 0, before |-> Manager,
                in_text |-> <<>>, sources |-> <<>>, text |-> <<>>, issued_before |-> last.issued, issued |-> NoIssued]
    /\ UNCHANGED <<engine_vars, server_vars>>

NextManager ==
    \/ CallAddCitation
    \/ CallInsertCitations(CiteTexts, CiteLists)
    \/ CallImportCitations
    \/ CallClear

\* Any sequence of calls on one CitationManager.
SpecManager == Init /\ [][NextManager]_vars

\* ------------------------------------------ insert_citations on its texts

W3 == Src(UrlReddit, TitleOver50, 300, 0, 0)

\* Sources given to insert_citations: titles of 13, 4 and 52 characters, one
\* URL under two titles, one source without URL.
InsertSamples == {W1, W1b, R1, W3}

InsertLists == {<<>>} \cup {<<a>> : a \in InsertSamples}
               \cup {<<a, b>> : a \in InsertSamples, b \in InsertSamples}

\* Texts given to insert_citations: empty; the long title and a full stop;
\* the long title twice, with a bracketed note between the two; the first
\* 50 characters of the longest title and a full stop.
TextTwice ==
    <<"a", " ">> \o TitleLong \o <<" ", "b", "[", "c", "]", " ">> \o TitleLong

TextPrefix == SubSeq(TitleOver50, 1, TITLE_PREFIX) \o <<".">>

InsertTexts == { <<>>, TitleLong \o <<".">>, TextTwice, TextPrefix }

NextInsert ==
    \/ CallInsertCitations(InsertTexts, InsertLists)
    \/ CallClear

\* Any sequence of insert_citations and clear calls on one CitationManager.
SpecInsert == Init /\ [][NextInsert]_vars

\* ------------------------------------------- the aggregators on their own

\* What search() may return for one query: up to two records, with the AI
\* summary in front when Tavily gave an answer.  The records: two with the
\* same URL and different scores, two with different URLs and equal scores,
\* one without URL.
WebRecords == {W1, W1b, W2, R2, R1}

WebLists ==
    LET plain == {<<>>} \cup {<<a>> : a \in WebRecords}
                 \cup {<<a, b>> : a \in WebRecords, b \in WebRecords}
    IN  plain \cup {<<AISummary>> \o l : l \in plain}

\* A call about to be made: the operation and its arguments.
Pending(op, input) == [op |-> op, input |-> input, done |-> FALSE, output |-> <<>>]

\* What may happen to one agent's request.
Outcomes == {Ok(<<>>), Ok(<<R2>>), Ok(<<R1, R2>>)} \cup {Failed(k) : k \in FailureKinds}

\* fetch_all's sources argument: None, registered names, a name that is
\* registered only with a news API key, an unknown name, no name.
SourcesArgs ==
    {AllSources, Sources(<<>>), Sources(<<"arxiv">>), Sources(<<"news">>),
     Sources(<<"wikipedia", "arxiv">>), Sources(<<"web", "arxiv">>)}

\* The web results of two queries and the records of the two agents, for
\* _combine_sources.
CombineInputs ==
    [web       : {<<first, second>> : first \in {<<>>, <<W1>>, <<AISummary, W2>>, <<R1, W2>>},
                                      second \in {<<>>, <<R2, W1>>}},
     arxiv     : {<<>>, <<R2>>, <<R1>>},
     wikipedia : {<<>>, <<R2>>, <<W1>>}]

\* One source for every combination of domain matches, keyword match, search
\* score, age and channel.
ScoreUrls ==
    {UrlPlain, UrlEdu, UrlBbc, UrlReddit, UrlBbcEdu, UrlRedditEdu, UrlBbcReddit,
     UrlBbcRedditEdu}

ScoreSources ==
    {[Src(u, t, sc, 0, d) EXCEPT !.channel = c] :
        u \in ScoreUrls, t \in {TitleShort, TitleStudy}, sc \in {0, 500, 1000},
        d \in {0, Now - 10, Now - 400}, c \in {"web_search", "realtime"}}

\* Publication dates on both sides of every age threshold, in the future,
\* missing (0) and unparsable (-1).
RecencyDates ==
    {0, -1, Now + 5, Now, Now - 29, Now - 30, Now - 89, Now - 90, Now - 179,
     Now - 180, Now - 364, Now - 365, Now - 900}

\* Sources to rank: two that differ in title only, one more credible, one
\* less credible, one from the real-time channel.
RankRecords ==
    {Src(UrlPlain, TitleShort, 500, 0, 0), Src(UrlPlain, TitleLong, 500, 0, 0),
     Src(UrlEdu, TitleShort, 500, 0, 0), Src(UrlReddit, TitleShort, 900, 0, 0),
     [Src(UrlPlain, TitleStudy, 500, 0, Now - 100) EXCEPT !.channel = "realtime"]}

RankLists ==
    {<<>>} \cup {<<a>> : a \in RankRecords}
    \cup {<<a, b>> : a \in RankRecords, b \in RankRecords}
    \cup {<<a, b, c>> : a \in RankRecords, b \in RankRecords, c \in RankRecords}

SourceCalls ==
    {Pending("web.aggregate_results", <<first, second>>) :
        first \in WebLists, second \in WebLists}
    \cup {Pending("score", x) : x \in ScoreSources}
    \cup {Pending("calculate_recency_score", <<d1, d2>>) :
             d1 \in RecencyDates, d2 \in RecencyDates}
    \cup {Pending("score_and_rank_sources", l) : l \in RankLists}
    \cup {Pending("fetch_all", [agents |-> a, sources |-> s, outcomes |-> o]) :
             a \in {Agents, AgentsWithNews}, s \in SourcesArgs,
             o \in [Range(AgentsWithNews) -> Outcomes]}
    \cup {Pending("combine_sources", c) : c \in CombineInputs}

\* The engine as constructed, and one call with its arguments ready.
InitSources ==
    /\ progress_callback = 0
    /\ current_progress = 0
    /\ max_queries = MAX_QUERIES
    /\ citations = <<>>
    /\ citation_map = <<>>
    /\ runs = 0
    /\ request = [r \in Requests |-> [depth |-> "", format |-> ""]]
    /\ pc = [r \in Requests |-> "idle"]
    /\ frame = [r \in Requests |-> NoFrame]
    /\ queue = [r \in Requests |-> <<>>]
    /\ consumer = [r \in Requests |-> "idle"]
    /\ runlog = [r \in Requests |-> <<>>]
    /\ puts = [r \in Requests |-> NoPuts]
    /\ stream = [r \in Requests |-> NoStream]
    /\ last \in SourceCalls

\* searcher.aggregate_results(multi_results) for the results of two queries
CallWebAggregate ==
    /\ last.op = "web.aggregate_results"
    /\ ~last.done
    /\ last' = [last EXCEPT !.done = TRUE,
                            !.output = web_aggregate_results(last.input)]
    /\ UNCHANGED <<engine_vars, cm_vars, server_vars>>

\* data_aggregator.fetch_all(topic, sources)
CallFetchAll ==
    /\ last.op = "fetch_all"
    /\ ~last.done
    /\ last' = [last EXCEPT !.done = TRUE,
                            !.output = fetch_all(last.input.agents, last.input.sources,
                                                 last.input.outcomes)]
    /\ UNCHANGED <<engine_vars, cm_vars, server_vars>>

\* conduct_research, steps 2 to 4: the web results aggregated, the agents'
\* records aggregated, and the two lists combined.
CallCombine ==
    /\ last.op = "combine_sources"
    /\ ~last.done
    /\ last' = [last EXCEPT !.done = TRUE,
                            !.output = combine_sources(
                                web_aggregate_results(last.input.web),
                                realtime_aggregate_results(
                                    <<last.input.arxiv, last.input.wikipedia>>))]
    /\ UNCHANGED <<engine_vars, cm_vars, server_vars>>

\* The body of the loop of _score_and_rank_sources for one source.
CallScore ==
    /\ last.op = "score"
    /\ ~last.done
    /\ last' = [last EXCEPT !.done = TRUE,
                            !.output = [credibility |-> score_credibility(last.input),
                                        recency |-> calculate_recency_score(
                                                        last.input.date),
                                        final_score |-> final_score(last.input)]]
    /\ UNCHANGED <<engine_vars, cm_vars, server_vars>>

\* _calculate_recency_score for two publication dates at the same time
CallRecency ==
    /\ last.op = "calculate_recency_score"
    /\ ~last.done
    /\ last' = [last EXCEPT !.done = TRUE,
                            !.output = <<calculate_recency_score(last.input[1]),
                                         calculate_recency_score(last.input[2])>>]
    /\ UNCHANGED <<engine_vars, cm_vars, server_vars>>

\* _score_and_rank_sources(sources, topic)
CallRank ==
    /\ last.op = "score_and_rank_sources"
    /\ ~last.done
    /\ last' = [last EXCEPT !.done = TRUE,
                            !.output = score_and_rank_sources(last.input)]
    /\ UNCHANGED <<engine_vars, cm_vars, server_vars>>

NextSources ==
    \/ CallWebAggregate
    \/ CallFetchAll
    \/ CallCombine
    \/ CallScore
    \/ CallRecency
    \/ CallRank

\* One call on the searcher's or the data aggregator's pure operations.
SpecSources == InitSources /\ [][NextSources]_vars

\* ------------------------------------------------------------------ claims

Last(s) == s[Len(s)]

Terminals(q) == {i \in 1..Len(q) : IsTerminal(q[i])}

Progresses(q) == {i \in 1..Len(q) : q[i].event = "progress"}

Raised(r) == {i \in 1..Len(runlog[r]) : runlog[r][i].kind = "raise"}

\* C1: within one run on an engine no other run uses, the percents of the
\* progress events put on the run's queue never decrease in the order they
\* were put, at most one terminal event is ever put, nothing is put after
\* it, and a finished run has put exactly one: complete or error.
C1_MonotoneProgressOneTerminal ==
    \A r \in Requests :
        LET q == queue[r]
        IN  /\ \A i \in Progresses(q), j \in Progresses(q) :
                  i < j => q[i].percent <= q[j].percent
            /\ Cardinality(Terminals(q)) <= 1
            /\ \A i \in Terminals(q) : i = Len(q)
            /\ pc[r] = "finished" =>
                  /\ Cardinality(Terminals(q)) = 1
                  /\ Last(q).event \in {"complete", "error"}

\* C1 witness: a finished run whose queue holds the twelve progress events
\* and the complete event.
C1_Witness ==
    /\ pc[1] = "finished"
    /\ Len(queue[1]) = 13
    /\ Last(queue[1]).event = "complete"

\* What a run of conduct_research does when nothing raises, as the claim
\* states it: every stage reports, then works; START and DONE only report.
C2_ExpectedPercents == <<0, 10, 20, 35, 45, 55, 65, 70, 75, 85, 90, 100>>

C2_Returned(r) == runlog[r] # <<>> /\ Last(runlog[r]).stage = "DONE"

C2_Steps(r) ==
    [i \in 1..Len(runlog[r]) |-> <<runlog[r][i].kind, runlog[r][i].stage>>]

C2_ExpectedPairs ==
    <<<<"emit", "START">>,
      <<"emit", "QUERIES">>, <<"work", "QUERIES">>,
      <<"emit", "SEARCH">>, <<"work", "SEARCH">>,
      <<"emit", "REALTIME">>, <<"work", "REALTIME">>,
      <<"emit", "SCORE">>, <<"work", "SCORE">>,
      <<"emit", "INDEX">>, <<"work", "INDEX">>,
      <<"emit", "ANALYZE">>, <<"work", "ANALYZE">>,
      <<"emit", "RETRIEVE">>, <<"work", "RETRIEVE">>,
      <<"emit", "SYNTHESIZE">>, <<"work", "SYNTHESIZE">>,
      <<"emit", "CITE">>, <<"work", "CITE">>,
      <<"emit", "BIBLIOGRAPHY">>, <<"work", "BIBLIOGRAPHY">>,
      <<"emit", "DONE">>>>

\* C2: while no stage has raised, what the run has done so far is a prefix
\* of: report 0; report 10, generate queries; report 20, search; ... ;
\* report 90, bibliography; report 100.  A run that returned has done all
\* of it, and its queue holds the percents 0, 10, 20, 35, 45, 55, 65, 70,
\* 75, 85, 90, 100 in that order, each once.
C2_StagesInOrder ==
    \A r \in Requests :
        /\ Raised(r) = {} =>
              C2_Steps(r) = SubSeq(C2_ExpectedPairs, 1, Len(runlog[r]))
        /\ C2_Returned(r) =>
              /\ Len(runlog[r]) = Len(C2_ExpectedPairs)
              /\ LET q  == queue[r]
                     ps == SelectSeq(q, LAMBDA e : e.event = "progress")
                 IN  [i \in 1..Len(ps) |-> ps[i].percent] = C2_ExpectedPercents

\* C2 witness: a run has returned from conduct_research.
C2_Witness == \E r \in Requests : C2_Returned(r) /\ pc[r] = "export"

\* C3: when the work of a stage raises, that is the last thing the run does
\* (no later report, no later stage), the thread ends, and its queue holds
\* exactly one error event, put last, carrying the exception of the stage
\* that raised, no complete event, and the progress events of the stages
\* reported up to then and no other.
C3_RaiseEndsRun ==
    \A r \in Requests :
        \A i \in Raised(r) :
            LET q == queue[r]
            IN  /\ i = Len(runlog[r])
                /\ pc[r] = "finished"
                /\ Cardinality(Terminals(q)) = 1
                /\ Last(q).event = "error"
                /\ Last(q).error = runlog[r][i].stage
                /\ \A j \in 1..Len(q) : q[j].event # "complete"
                /\ Cardinality(Progresses(q))
                     = Cardinality({j \in 1..i : runlog[r][j].kind = "emit"})

\* C3 witness: the CITE stage of a run raised.
C3_Witness ==
    \E r \in Requests :
        /\ Raised(r) # {}
        /\ Last(runlog[r]).stage = "CITE"
        /\ Last(queue[r]).event = "error"

\* C4: with requests running concurrently, every progress event put on a
\* request's queue was emitted by that request's own run, the percents put
\* on a queue never decrease, and nothing is put on a queue after its
\* terminal event.
C4_NoCrossTalk ==
    \A q \in Requests :
        /\ ~puts[q].foreign
        /\ ~puts[q].decreased
        /\ ~puts[q].late
        /\ \A i \in 1..Len(queue[q]) :
              queue[q][i].event = "progress" => queue[q][i].from = q

\* C5: the citations and the bibliography a run returns hold only sources
\* analyzed in that run, numbered from 1: one bibliography line per
\* citation, and every citation is a source the run analyzed.
C5_CitationsOfThisRunOnly ==
    \A r \in Requests :
        pc[r] \in {"restore", "export"} =>
            LET res  == frame[r].result
                mine == {citation_info(x) : x \in Range(frame[r].analyzed_sources)}
            IN  /\ \A i \in 1..Len(res.citations) : res.citations[i] \in mine
                /\ \A i \in 1..Len(res.bibliography) :
                      res.bibliography[i].num > 0 =>
                          [url   |-> res.bibliography[i].url,
                           title |-> res.bibliography[i].title] \in mine

\* C6: once quick_research or deep_research has returned or failed,
\* max_queries is what it was before the call.
C6_MaxQueriesRestored ==
    \A r \in Requests :
        (request[r].depth \in {"quick", "deep"} /\ pc[r] \in {"export", "finished"})
            => max_queries = frame[r].original_max

\* C7: after the CITE stage of the first run on a fresh engine (the manager
\* was empty when the run started) the citation list has at most as many
\* entries as there are analyzed sources.
C7_AtMostOneCitationPerSource ==
    \A r \in Requests :
        (runs = 1 /\ pc[r] # "idle" /\ frame[r].stage > 10)
            => Len(citations) <= Len(frame[r].analyzed_sources)

\* C8: add_citation with a non-empty URL: if no entry has the URL, the list
\* grows by exactly one and the new length is returned; if add_citation was
\* called with the URL before (since the last reset), the same number is
\* returned again; whenever an entry has the URL already, list and map are
\* left as they were.
C8_AddCitationIdempotent ==
    (last.op = "add_citation" /\ last.url # "") =>
        LET seen == \E i \in 1..Len(last.before.citations) :
                        last.before.citations[i].url = last.url
        IN  /\ ~seen => /\ Len(citations) = Len(last.before.citations) + 1
                        /\ last.num = Len(citations)
            /\ seen => Manager = last.before
            /\ last.issued_before[last.url] # 0 =>
                  /\ last.num = last.issued_before[last.url]
                  /\ Manager = last.before

\* C8 witness: a repeated add_citation for a URL, with other entries added
\* since the first call.
C8_Witness ==
    /\ last.op = "add_citation"
    /\ last.url # ""
    /\ last.issued_before[last.url] = 1
    /\ Len(citations) = 3

\* C9: add_citation for a source without URL always appends one entry,
\* returns the length before the call plus one, and leaves the map alone.
C9_NoUrlNeverDeduplicated ==
    (last.op = "add_citation" /\ last.url = "") =>
        /\ Len(citations) = Len(last.before.citations) + 1
        /\ SubSeq(citations, 1, Len(last.before.citations)) = last.before.citations
        /\ Last(citations).url = ""
        /\ last.num = Len(last.before.citations) + 1
        /\ citation_map = last.before.citation_map

\* C9 witness: a source without URL is added when the list already holds one.
C9_Witness ==
    /\ last.op = "add_citation"
    /\ last.url = ""
    /\ \E i \in 1..Len(last.before.citations) : last.before.citations[i].url = ""

\* "[n]" for a one-digit n
C10_Marker(n) == <<"[", DecimalDigits[n + 1], "]">>

\* C10: the map's values lie in 1..len(citations), distinct URLs have
\* distinct numbers, the entry at position n - 1 (0-based) has the URL
\* mapped to n, every entry with a URL is mapped, and get_inline_citation
\* gives "[n]" for the URLs of the list, n the position of the first entry
\* with that URL, and "" for every other URL, the empty one included.
C10_NumberingFirstSeen ==
    /\ \A u \in DOMAIN citation_map :
          /\ citation_map[u] \in 1..Len(citations)
          /\ citations[citation_map[u]].url = u
    /\ \A u \in DOMAIN citation_map, v \in DOMAIN citation_map :
          u # v => citation_map[u] # citation_map[v]
    /\ \A u \in URLs \cup {""} :
          LET at == {i \in 1..Len(citations) : citations[i].url = u}
          IN  get_inline_citation(Manager, u) =
                  IF u # "" /\ at # {}
                  THEN C10_Marker(CHOOSE i \in at : \A j \in at : i <= j)
                  ELSE <<>>

\* C10 witness: two mapped URLs with an entry without URL between them.
C10_Witness ==
    /\ Cardinality(DOMAIN citation_map) = 2
    /\ \E i \in 1..Len(citations) : citations[i].url = ""
    /\ get_inline_citation(Manager, UrlReddit) = <<"[", "3", "]">>

\* Where the characters of t stand in text, one after the other.
C11_Occurrences(text, t) ==
    {i \in 1..(Len(text) - Len(t) + 1) :
        \A k \in 1..Len(t) : text[i + k - 1] = t[k]}

\* The number insert_citations has for a source, given the manager before.
C11_Number(before, source) ==
    IF source.url # "" /\ source.url \in DOMAIN before.citation_map
    THEN before.citation_map[source.url]
    ELSE Len(before.citations) + 1

\* text with the characters m put in after position e
C11_PutAfter(text, e, m) ==
    SubSeq(text, 1, e) \o m \o SubSeq(text, e + 1, Len(text))

\* The source's title is longer than 10 characters and its first 50
\* characters occur in the text.
C11_Mentioned(text, source) ==
    /\ Len(source.title) > 10
    /\ C11_Occurrences(text, SubSeq(source.title, 1, Min(50, Len(source.title)))) # {}

C12_IsNew(before, sources, k) ==
    \/ sources[k].url = ""
    \/ /\ sources[k].url \notin DOMAIN before.citation_map
       /\ \A j \in 1..(k - 1) : sources[j].url # sources[k].url

RECURSIVE C12_NewEntries(_, _, _)
C12_NewEntries(before, sources, k) ==
    IF k > Len(sources) THEN <<>>
    ELSE (IF C12_IsNew(before, sources, k)
          THEN <<[url |-> sources[k].url, title |-> sources[k].title]>>
          ELSE <<>>)
         \o C12_NewEntries(before, sources, k + 1)

\* C12: insert_citations registers every source it is given, in the order
\* given, whether or not its title occurs in the text: the new sources are
\* appended in that order, every source has a numbered line in the
\* bibliography, and when no source has a title longer than 10 characters
\* that occurs in the text, the text comes back unchanged.
C12_RegistersEverySource ==
    last.op = "insert_citations" =>
        LET bib == generate_bibliography(Manager)
        IN  /\ citations = last.before.citations
                             \o C12_NewEntries(last.before, last.sources, 1)
            /\ \A k \in 1..Len(last.sources) :
                  LET source == last.sources[k]
                  IN  \E n \in 1..Len(citations) :
                         /\ bib[n + 1].num = n
                         /\ bib[n + 1].url = source.url
                         /\ source.url # "" => citation_map[source.url] = n
                         /\ source.url = "" => /\ bib[n + 1].title = source.title
                                               /\ n > Len(last.before.citations)
            /\ (\A k \in 1..Len(last.sources) :
                   ~C11_Mentioned(last.in_text, last.sources[k]))
                  => last.text = last.in_text

\* C12 witness: two sources, one with a short title, one whose title is not
\* in the text, on an empty manager: both are numbered, the text is as it was.
C12_Witness ==
    /\ last.op = "insert_citations"
    /\ last.before = EmptyManager
    /\ last.sources = <<W1b, W3>>
    /\ last.in_text = TitleLong \o <<".">>
    /\ last.text = TitleLong \o <<".">>
    /\ citation_map[UrlPlain] = 1
    /\ citation_map[UrlReddit] = 2

\* C13: generate_bibliography gives "" for an empty list; otherwise the
\* header REFERENCES and then one entry per citation, in list order, the
\* i-th carrying the number i and the i-th citation; the number
\* add_citation returned for a source is the number of that source's entry.
C13_BibliographyNumbered ==
    LET bib == generate_bibliography(Manager)
    IN  /\ citations = <<>> => bib = <<>>
        /\ citations # <<>> =>
              /\ Len(bib) = Len(citations) + 1
              /\ bib[1] = [num |-> 0, url |-> "", title |-> <<"REFERENCES">>]
              /\ \A i \in 1..Len(citations) :
                    bib[i + 1] = [num |-> i, url |-> citations[i].url,
                                  title |-> citations[i].title]
        /\ last.op = "add_citation" =>
              /\ bib[last.num + 1].num = last.num
              /\ bib[last.num + 1].url = last.url
              /\ last.url = "" => bib[last.num + 1].title = last.sources[1].title

\* C13 witness: add_citation returned 2 for a source, two more are listed.
C13_Witness ==
    /\ last.op = "add_citation"
    /\ last.num = 2
    /\ last.url = UrlReddit
    /\ Len(generate_bibliography(Manager)) = 4
    /\ generate_bibliography(Manager)[3].url = UrlReddit

\* Where the first record with the URL u stands in the list.
C14_FirstAt(flat, u) ==
    CHOOSE i \in 1..Len(flat) :
        flat[i].url = u /\ \A j \in 1..(i - 1) : flat[j].url # u

\* The per-query lists of the call, one after the other.
C14_Flat == last.input[1] \o last.input[2]

\* C14: the list aggregate_results returns has no two records with the same
\* non-empty URL; every URL met is there once, and the record kept for it is
\* the first one met going through the queries and their results in order.
C14_FirstOccurrenceWins ==
    (last.op = "web.aggregate_results" /\ last.done) =>
        LET out  == last.output
            flat == C14_Flat
        IN  /\ \A i \in 1..Len(out), j \in 1..Len(out) :
                  (i # j /\ out[i].url # "") => out[i].url # out[j].url
            /\ \A i \in 1..Len(out) :
                  out[i] = flat[C14_FirstAt(flat, out[i].url)]
            /\ \A k \in 1..Len(flat) :
                  flat[k].url # "" => \E i \in 1..Len(out) : out[i].url = flat[k].url

\* C14 witness: the same URL came back for both queries, with different
\* records; the first query's record is the one in the list.
C14_Witness ==
    /\ last.op = "web.aggregate_results"
    /\ last.input = << <<AISummary, W1b>>, <<W2, W1>> >>
    /\ last.output = <<W2, W1b>>

\* C16: the list aggregate_results returns has no record flagged is_summary,
\* its scores never go up, and records of equal score stand in the order in
\* which they were first met.
C16_SortedWithoutSummaries ==
    (last.op = "web.aggregate_results" /\ last.done) =>
        LET out  == last.output
            flat == C14_Flat
        IN  /\ \A i \in 1..Len(out) : ~out[i].is_summary
            /\ \A i \in 1..Len(out), j \in 1..Len(out) :
                  i < j =>
                     /\ out[i].score >= out[j].score
                     /\ out[i].score = out[j].score =>
                           C14_FirstAt(flat, out[i].url) < C14_FirstAt(flat, out[j].url)

\* C16 witness: an AI summary came back, and two records of equal score.
C16_Witness ==
    /\ last.op = "web.aggregate_results"
    /\ last.input = << <<AISummary, R2>>, <<W2, W1>> >>
    /\ last.output = <<W1, R2, W2>>

\* C15: in the combined list that goes into scoring, web results first and
\* real-time records after them, no two records share a non-empty URL.
C15_UrlsUniqueAcrossChannels ==
    (last.op = "combine_sources" /\ last.done) =>
        \A i \in 1..Len(last.output), j \in 1..Len(last.output) :
            (i # j /\ last.output[i].url # "") => last.output[i].url # last.output[j].url

\* The names fetch_all is asked for that have an agent.
C17_Requested ==
    IF last.input.sources.none
    THEN {last.input.agents[i] : i \in 1..Len(last.input.agents)}
    ELSE {last.input.sources.names[i] : i \in 1..Len(last.input.sources.names)}
         \cap {last.input.agents[i] : i \in 1..Len(last.input.agents)}

C18_EmptyRunCompletesEmpty ==
    \A r \in Requests :
        (frame[r].fetched = 0 /\ pc[r] \in {"restore", "export"}) =>
            /\ frame[r].result.total_sources = 0
            /\ frame[r].result.analyzed_sources = 0
            /\ frame[r].result.sources = <<>>
            /\ frame[r].result.bibliography = <<>>

\* C19: a run whose query generation got nothing from the LLM (generate()
\* caught the error and returned "") does not come back from
\* conduct_research with a result, and no complete event is put.
C19_LlmFailureIsFatal ==
    \A r \in Requests :
        (frame[r].stage > 2 /\ frame[r].queries = 0) =>
            /\ pc[r] \notin {"restore", "export"}
            /\ \A i \in 1..Len(queue[r]) : queue[r][i].event # "complete"

\* C20: when the vector store raises while documents are added, 0 documents
\* count as added; when it raises in the query, the context is empty; either
\* way the stage returns and the exception reaches nobody: no error event
\* carries it, RETRIEVE never raises, and a run in which nothing else raises
\* ends with the complete event.
C20_StoreFailureRecovered ==
    \A r \in Requests :
        /\ "INDEX" \in frame[r].store_failed =>
              frame[r].indexed = 0 /\ frame[r].stage > 6
        /\ "RETRIEVE" \in frame[r].store_failed =>
              frame[r].rag_context = 0 /\ frame[r].stage > 8
        /\ \A i \in 1..Len(queue[r]) : queue[r][i].error # "vector store"
        /\ \A i \in Raised(r) : runlog[r][i].stage # "RETRIEVE"
        /\ (frame[r].store_failed # {} /\ pc[r] = "finished" /\ Raised(r) = {}
              /\ request[r].format = "screen")
              => Last(queue[r]).event = "complete"

\* C20 witness: there were documents to add, the store raised in INDEX and
\* in RETRIEVE, and the run went through every stage to the complete event.
C20_Witness ==
    \E r \in Requests :
        /\ frame[r].store_failed = {"INDEX", "RETRIEVE"}
        /\ frame[r].all_sources # <<>>
        /\ Len(runlog[r]) = 22
        /\ pc[r] = "finished"
        /\ Last(queue[r]).event = "complete"

\* C21: scoring one source with a search score between 0 and 1 gives
\* final_score = 0.4 * score + 0.4 * credibility + 0.1 * recency + 0.1 for
\* the real-time channel (+ 0 otherwise), between 0 and 1; the credibility is
\* 0.5 + 0.3 (authoritative) + 0.2 (reputable) - 0.2 (low credibility) + 0.1
\* (research keyword), each once, clamped to [0, 1].  Scores are in
\* thousandths, the final score in 1/10000.
C21_Sum(x) ==
    500 + (IF InAuthoritative(x.url) THEN 300 ELSE 0)
        + (IF InReputable(x.url) THEN 200 ELSE 0)
        - (IF InLowCredibility(x.url) THEN 200 ELSE 0)
        + (IF HasResearchKeyword(x.title) THEN 100 ELSE 0)

C21_FinalScoreFormula ==
    (last.op = "score" /\ last.done) =>
        LET x == last.input
            o == last.output
        IN  /\ o.credibility \in 0..1000
            /\ o.credibility = IF C21_Sum(x) > 1000 THEN 1000
                               ELSE IF C21_Sum(x) < 0 THEN 0 ELSE C21_Sum(x)
            /\ o.final_score = 4 * x.score + 4 * o.credibility + o.recency
                               + (IF x.channel = "realtime" THEN 1000 ELSE 0)
            /\ o.final_score \in 0..10000

\* An authoritative, reputable source with a research keyword in its title
\* (0.5 + 0.3 + 0.2 + 0.1, clamped to 1), recent, from the real-time channel,
\* with the highest search score: the final score is 1.
C21_Witness ==
    /\ last.op = "score"
    /\ last.done
    /\ C21_Sum(last.input) = 1100
    /\ last.output.credibility = 1000
    /\ last.output.final_score = 10000

\* C22: of two parsable publication dates the younger never scores lower;
\* the score is 1.0, 0.8, 0.6, 0.4, 0.2 for an age under 30, 90, 180, 365
\* days and beyond; a missing or unparsable date scores 0.3.
C22_Bracket(age) ==
    IF age < 30 THEN 1000 ELSE IF age < 90 THEN 800 ELSE IF age < 180 THEN 600
    ELSE IF age < 365 THEN 400 ELSE 200

C23_Permutations(n) ==
    {p \in [1..n -> 1..n] : \A i, j \in 1..n : i # j => p[i] # p[j]}

C23_StablePermutation ==
    (last.op = "score_and_rank_sources" /\ last.done) =>
        LET in == last.input
            out == last.output
        IN  /\ Len(out) = Len(in)
            /\ \A i \in 1..(Len(out) - 1) :
                   final_score(out[i]) >= final_score(out[i + 1])
            /\ \E p \in C23_Permutations(Len(in)) :
                   /\ \A i \in 1..Len(out) : out[i] = in[p[i]]
                   /\ \A i, j \in 1..Len(out) :
                          (i < j /\ final_score(out[i]) = final_score(out[j]))
                              => p[i] < p[j]

\* Three sources, the first two with equal final scores and the third with a
\* higher one: the third moves to the front, the two others keep their order.
C23_Witness ==
    /\ last.op = "score_and_rank_sources"
    /\ last.done
    /\ Len(last.input) = 3
    /\ last.input[1] # last.input[2]
    /\ final_score(last.input[1]) = final_score(last.input[2])
    /\ final_score(last.input[3]) > final_score(last.input[1])
    /\ last.output = <<last.input[3], last.input[1], last.input[2]>>

\* C30: aggregate_results returns no record whose URL is empty or missing:
\* such records are dropped, not kept, so that every source of the web
\* search channel in the combined list that goes to scoring has a URL.
C30_WebSourcesHaveUrl ==
    /\ (last.op = "web.aggregate_results" /\ last.done) =>
           \A i \in 1..Len(last.output) : last.output[i].url # ""
    /\ (last.op = "combine_sources" /\ last.done) =>
           \A i \in 1..Len(last.output) :
               last.output[i].channel = "web_search" => last.output[i].url # ""

\* Both queries returned a record without URL that is no summary; only the
\* record with a URL is in the list.
C30_Witness ==
    /\ last.op = "web.aggregate_results"
    /\ last.done
    /\ last.input = << <<R1, W1>>, <<R1>> >>
    /\ last.output = <<W1>>

\* C24: in a completed run the result's sources are the records among the
\* 20 highest-ranked scored sources with at least 100 characters of content,
\* in rank order; metadata.analyzed_sources is their number, at most
\* min(20, metadata.total_sources); metadata.total_sources is the size of
\* the combined list.
C24_Completed(r) == pc[r] \in {"restore", "export"}

C24_Kept(r) ==
    LET ranked == frame[r].all_sources
    IN  {i \in 1..Len(ranked) : i <= 20 /\ ranked[i].clen >= 100}

C25_Started(r) == consumer[r] # "idle"

C25_StopsOnTerminalOnly ==
    \A r \in Requests :
        C25_Started(r) =>
            /\ stream[r] = "keepalive" => consumer[r] = "waiting"
            /\ consumer[r] = "stopped" <=> stream[r] \in {"complete", "error"}

C25_KeepaliveThenStop ==
    /\ []C25_StopsOnTerminalOnly
    /\ [][\A r \in Requests :
             (consumer[r] = "waiting" /\ queue[r] = <<>> /\ stream'[r] # stream[r])
                 => (stream'[r] = "keepalive" /\ consumer'[r] = "waiting")]_vars
    /\ \A r \in Requests : (pc[r] = "finished") ~> (consumer[r] = "stopped")

\* The loop has timed out while the thread is at work: a keepalive went out
\* and the consumer waits on.
C25_Witness ==
    /\ stream[1] = "keepalive"
    /\ consumer[1] = "waiting"
    /\ pc[1] = "work"
    /\ queue[1] = <<>>

\* C26: with quick, deep and standard runs interleaved on the shared engine,
\* each run generates its queries with the limit of its own depth (3 for
\* quick, 8 for deep, the configured default for standard; the LLM offers
\* more lines than any limit), and once all runs have finished without an
\* exception max_queries is the configured default.
C26_Limit(depth) ==
    IF depth = "quick" THEN QUICK_QUERIES
    ELSE IF depth = "deep" THEN DEEP_QUERIES ELSE MAX_QUERIES

C26_OwnLimitAndRestored ==
    /\ \A r \in Requests :
           (pc[r] # "idle" /\ frame[r].stage > 2)
               => frame[r].queries = C26_Limit(request[r].depth)
    /\ (runs > 0 /\ \A r \in Requests :
                        pc[r] = "idle" \/ (pc[r] = "finished" /\ Raised(r) = {}))
           => max_queries = MAX_QUERIES

\* C27: when two requests run at the same time the citation list and the
\* URL-to-number map are never written by both runs' CITE stages, so that
\* under every interleaving of add_citation calls no two entries of the list
\* get the same number and the map agrees with the list.
C27_Numbers ==
    Concat([r \in 1..Cardinality(Requests) |-> frame[r].cite_nums])

C27_CiteStagesDoNotInterfere ==
    /\ \A i, j \in 1..Len(C27_Numbers) : i # j => C27_Numbers[i] # C27_Numbers[j]
    /\ (\A r \in Requests : pc[r] \notin {"append", "set_map"}) =>
           \A url \in DOMAIN citation_map :
               /\ citation_map[url] \in 1..Len(citations)
               /\ citations[citation_map[url]].url = url

\* C28: a run that has put the 100% progress event ends its stream with the
\* complete event, never with an error event, whatever format was asked for.
C28_HundredThenComplete ==
    \A r \in Requests :
        (pc[r] = "finished"
         /\ \E i \in Progresses(queue[r]) : queue[r][i].percent = 100)
            => Last(queue[r]).event = "complete"

\* C29: with an overlap of at most half the chunk size (as with the defaults
\* 1000 and 200) _split_text returns for every text; the window start grows
\* on every pass of the loop, each window starts exactly overlap characters
\* before the end of the window before it, and every character position of
\* the text lies in a window.  A window is the pair of start and end on
\* which the pass appended its chunk.
C29_Windows ==
    LET w == last.windows
    IN  /\ 2 * CHUNK_OVERLAP <= CHUNK_SIZE
        /\ 2 * last.overlap <= last.chunk_size
        /\ Len(w) <= Len(last.text)
        /\ \A i \in 1..Len(w) : w[i].start >= 0 /\ w[i].start < w[i].end
        /\ \A i \in 1..(Len(w) - 1) :
               /\ w[i + 1].start > w[i].start
               /\ w[i + 1].start = w[i].end - last.overlap
        /\ last.done =>
               \A p \in 0..(Len(last.text) - 1) :
                   \E i \in 1..Len(w) : w[i].start <= p /\ p < w[i].end

C29_SplitTerminates ==
    /\ []C29_Windows
    /\ [][last.op = "split_text" => (last'.start > last.start \/ last'.done)]_vars
    /\ (last.op = "split_text") ~> last.done

\* A call that returned after three passes, the first window cut back to
\* the sentence boundary, the next ones starting overlap before that end.
C29_Witness ==
    /\ last.done
    /\ last.overlap > 0
    /\ Len(last.windows) = 3
    /\ last.windows[1].end < last.chunk_size
    /\ last.windows[2].start = last.windows[1].end - last.overlap

====
